---- MODULE Spec2Model ----
(***************************************************************************)
(* Client synchronization agents of the comment system: the public hook    *)
(* useSocket with the display page's lag effect, and the moderator hook    *)
(* useAdminSocket, against a Comment Store / Distribution Hub.             *)
(* Time is counted in seconds; a timer is urgent: time does not advance    *)
(* past the instant at which an armed timer is due.                        *)
(***************************************************************************)
EXTENDS Integers, Sequences, FiniteSets, TLC

\* ------------------------------------------------------------- bounds
MaxId == 2        \* comment ids are 1..MaxId
MaxTime == 3      \* the clock stops at MaxTime
MaxOps == 3       \* number of Store mutations
MaxDup == 1       \* number of redeliveries (at-least-once delivery)
MaxLag == 2       \* lag values are 0..MaxLag seconds
MaxInstance == 2  \* instance ids are 1..MaxInstance
MaxSwitch == 1    \* number of changes of the subscribed instance
MaxWindow == 3    \* max_comments values drawn are 0..MaxWindow
MaxCred == 3      \* credentials have at most MaxCred characters
MaxPass == 2      \* admin_password has at most MaxPass characters

\* setTimeout(..., 2000) of the fallback, in seconds
FallbackDelay == 2

\* max_comments of the default settings
DefaultMaxComments == 50

Ids == 1..MaxId
Lags == 0..MaxLag
Instances == 1..MaxInstance

\* the instance the components are mounted on: router.query.id at mount. The
\* Settings Store and the instance record modelled are this instance's; the
\* other instances keep the default settings and are never deleted
Home == 1
Null == <<>>

\* character codes: ":", "a" and "b"
Colon == 58
Chars == {Colon, 97, 98}

VARIABLES
  now,            \* Date.now(), seconds
  store,          \* Comment Store: id -> "none" | "visible" | "hidden" | "deleted"
  created,        \* Comment Store: id -> server-assigned creation timestamp
  storeLag,       \* Settings Store: lag_seconds
  hasPassword,    \* Instance.admin_password is set
  adminPassword,  \* Instance.admin_password, a string of character codes
  authorization,  \* req.headers.authorization of the last admin page request
  response,       \* its outcome: "none" | "props" | "401"
  ops,            \* Store mutations so far
  active,         \* Instance.active: the instance exists
  owner,          \* Comment Store: id -> instance_id (0 before creation)
  \* public agent: useSocket
  join,           \* Hub side of the socket: "none" | "pending" | "subscribed"
  inbox,          \* push events in flight to the socket, FIFO
  dups,           \* redeliveries so far
  comments,       \* useState comments
  settings,       \* useState settings: Null or <<lag_seconds>>
  pending,        \* timers armed by handleNewComment: [id, due, tracked];
                  \* tracked = the handle is the one in pendingCommentsRef
  fallback,       \* armed fallback timer: Null or <<due>>
  fetches,        \* fallback fetch responses in flight
  \* display page
  pageSettings,   \* DisplayPage useState settings: Null or <<lag_seconds>>
  visibleComments,\* DisplayPage useState visibleComments
  lagTimers,      \* timers armed by the lag effect: [id, c, due, tracked];
                  \* tracked = the handle is the one in lagTimerRef
  loadReq,        \* a loadSettings() request is outstanding
  \* the component that hosts the hook
  variant,        \* the page mounted: the display page "append"
                  \* (pages/display/[id].tsx) or "recompute" (its
                  \* flow-direction variant), or "viewer" (CommentPage, the
                  \* submission page: no lag effect, no loadSettings)
  instanceId,     \* router.query.id, the instance the hook is called with
  mounted,        \* the component is mounted
  connected,      \* useState connected: the transport is up
  switches,       \* changes of instanceId so far
  maxComments,    \* currentSettings.max_comments, fixed during a run
  \* moderator agent: useAdminSocket
  aJoin, aInbox, aDups, allComments, aSettings, aFallback, aFetches,
  \* observations of the run (history), not program state
  obs,            \* public agent
  aobs            \* moderator agent; marked = the id of the last comment_hidden
                  \* applied to a list that held it (0: none)

gateVars == <<hasPassword, adminPassword, authorization, response>>
storeVars == <<now, store, created, storeLag, gateVars, ops, active, owner>>
hostVars == <<variant, instanceId, mounted, connected, switches, maxComments>>
pubVars == <<join, inbox, dups, comments, settings, pending, fallback, fetches,
             pageSettings, visibleComments, lagTimers, loadReq, obs, hostVars>>
admVars == <<aJoin, aInbox, aDups, allComments, aSettings, aFallback, aFetches, aobs>>
vars == <<storeVars, pubVars, admVars>>

\* ------------------------------------------------------------- helpers
\* the ids of a comment list, as a set
IdsOf(list) == {list[i].id : i \in 1..Len(list)}

\* prev.find(c => c.id === id)
Has(list, id) == \E i \in 1..Len(list) : list[i].id = id

\* number of entries of list with this id
Count(list, id) == Cardinality({i \in 1..Len(list) : list[i].id = id})

\* prev.filter(comment => comment.id !== id)
Without(list, id) == SelectSeq(list, LAMBDA c : c.id # id)

\* s without its i-th element
RemoveAt(s, i) == SubSeq(s, 1, i - 1) \o SubSeq(s, i + 1, Len(s))

\* a Comment as the Store serves it
CommentOf(id) == [id |-> id, hidden |-> store[id] = "hidden", instance_id |-> owner[id]]

\* new Date(comment.timestamp).getTime()
Timestamp(id) == created[id]

\* now - commentTime
Age(id) == now - Timestamp(id)

RECURSIVE ListOf(_, _)
\* the Store's comments with a status in sts, in creation order, from id i on
ListOf(i, sts) ==
  IF i > MaxId THEN <<>>
  ELSE (IF store[i] \in sts THEN <<CommentOf(i)>> ELSE <<>>) \o ListOf(i + 1, sts)

\* the comments of list that belong to instance inst
InInstance(list, inst) == SelectSeq(list, LAMBDA c : c.instance_id = inst)

\* GET /comments/{instance}/ and the public snapshot: visible and existing
PublicListOf(inst) == InInstance(ListOf(1, {"visible"}), inst)

\* GET /admin/comments/{instance}/ and the moderator snapshot: all existing
AdminList == InInstance(ListOf(1, {"visible", "hidden"}), Home)

\* a push event
Msg(type, id, list, lag) == [type |-> type, id |-> id, comments |-> list, lag |-> lag]

\* settings?.lag_seconds || 0
LagSeconds(s) == IF s = Null THEN 0 ELSE s[1]

\* currentSettings = socketSettings || settings
CurrentSettings(hookSettings, ownSettings) ==
  IF hookSettings # Null THEN hookSettings ELSE ownSettings

\* ------------------------------------------------------------- display page
\* one pass of comments.forEach in the lag effect: add = the comments appended
\* to visibleComments, timers = the entries set in lagTimerRef; vis is the
\* visibleComments of the render the effect closes over
RECURSIVE EffectLoop(_, _, _, _, _)
EffectLoop(list, i, lag, vis, acc) ==
  IF i > Len(list) THEN acc
  ELSE LET c == list[i]
           skip == Has(vis, c.id) \/ (\E t \in acc.timers : t.id = c.id)
           timeElapsed == now - Timestamp(c.id)
       IN EffectLoop(list, i + 1, lag, vis,
            IF skip THEN acc
            ELSE IF timeElapsed >= lag
                 THEN [acc EXCEPT !.add = Append(@, c)]
                 ELSE [acc EXCEPT !.timers = @ \cup {[id |-> c.id, c |-> c,
                                                       due |-> Timestamp(c.id) + lag,
                                                       tracked |-> TRUE]}])

NoEffect == [add |-> <<>>, timers |-> {}]

\* PageEffect that drops the visible comments younger than the lag
PageEffect_Retract(list, cur, vis) ==
  IF LagSeconds(cur) = 0
  THEN [visible |-> list, timers |-> {}]
  ELSE LET lag == LagSeconds(cur)
           kept == SelectSeq(vis, LAMBDA c : now - Timestamp(c.id) >= lag)
           r1 == EffectLoop(list, 1, lag, kept, NoEffect)
       IN [visible |-> kept \o r1.add, timers |-> r1.timers]

\* PageEffect without the test of the elapsed time
PageEffect_NoGate(list, cur, vis) == [visible |-> list, timers |-> {}]

\* the lag effect run until its dependencies are stable: the cleanup of the
\* previous run has cleared lagTimerRef before each run
PageEffect(list, cur, vis) ==
  IF LagSeconds(cur) = 0
  THEN [visible |-> list, timers |-> {}]
  ELSE LET lag == LagSeconds(cur)
           r1 == EffectLoop(list, 1, lag, vis, NoEffect)
       IN IF r1.add = <<>>
          THEN [visible |-> vis, timers |-> r1.timers]
          ELSE LET v2 == vis \o r1.add
                   r2 == EffectLoop(list, 1, lag, v2, NoEffect)
               IN [visible |-> v2 \o r2.add, timers |-> r2.timers]

\* the lag effect of the flow-direction variant of the page, keyed on
\* [comments, lag_seconds]: the visible set is computed anew from the list, a
\* timer is armed for every entry that is not due; lagTimers.set(id, timerId)
\* keeps one handle per id, the last one
RecomputeEffect(list, cur) ==
  IF LagSeconds(cur) = 0
  THEN [visible |-> list, timers |-> {}]
  ELSE LET lag == LagSeconds(cur)
           due(c) == now - Timestamp(c.id) >= lag
           last(i) == \A j \in (i + 1)..Len(list) : list[j].id # list[i].id \/ due(list[j])
       IN [visible |-> SelectSeq(list, due),
           timers |-> {[id |-> list[i].id, c |-> list[i],
                        due |-> Timestamp(list[i].id) + lag, tracked |-> last(i)] :
                         i \in {k \in 1..Len(list) : ~due(list[k])}}]

\* lagTimers.forEach(clearTimeout); lagTimers.clear(): the timers without a
\* handle in lagTimerRef stay armed
Orphans(timers) == {t \in timers : ~t.tracked}

\* the lag the display page applies
CurrentLag == LagSeconds(CurrentSettings(settings, pageSettings))

\* the page re-rendered with this comment list and these hook settings; fresh =
\* the list is a new array. The variant's effect runs when the list is a new
\* array or the lag changed
Render(list, hookSettings, ownSettings, fresh) ==
  LET cur == CurrentSettings(hookSettings, ownSettings)
      r == IF variant = "viewer"
           THEN [visible |-> visibleComments, timers |-> lagTimers]
           ELSE IF variant = "recompute"
           THEN (IF fresh \/ LagSeconds(cur) # CurrentLag
                 THEN RecomputeEffect(list, cur)
                 ELSE [visible |-> visibleComments, timers |-> lagTimers])
           ELSE PageEffect(list, cur, visibleComments)
  IN /\ visibleComments' = r.visible
     /\ lagTimers' = r.timers \cup Orphans(lagTimers)

\* Array.prototype.slice(start) with one argument: a negative start counts
\* from the end, and is clamped to the array
Slice(list, start) ==
  LET n == Len(list)
      k == IF start < 0
           THEN (IF n + start > 0 THEN n + start ELSE 0)
           ELSE (IF start < n THEN start ELSE n)
  IN SubSeq(list, k + 1, n)

\* displayComments = visibleComments.slice(-currentSettings.max_comments)
DisplayComments == Slice(visibleComments, -maxComments)

\* ------------------------------------------------------------- public hook
\* pendingCommentsRef.current.set(id, timeoutId) replaces the handle kept for
\* id; pendingCommentsRef.current.delete(id) drops it: the timers armed
\* earlier for id stay armed, without a handle
Untrack(timers, id) ==
  [i \in 1..Len(timers) |->
     IF timers[i].id = id THEN [timers[i] EXCEPT !.tracked = FALSE] ELSE timers[i]]

\* clearTimeout(pendingComments.get(id)); pendingComments.delete(id)
ClearPending(timers, id) ==
  SelectSeq(timers, LAMBDA t : ~(t.id = id /\ t.tracked))

\* pendingComments.forEach(clearTimeout); pendingComments.clear()
ClearAllPending(timers) == SelectSeq(timers, LAMBDA t : ~t.tracked)

\* handleNewComment: the comment list and the timers after it
HandleNewComment(c, list, timers, s) ==
  IF LagSeconds(s) > 0
  THEN [comments |-> list,
        pending |-> Append(Untrack(timers, c.id),
                           [id |-> c.id, c |-> c, due |-> now + LagSeconds(s), tracked |-> TRUE])]
  ELSE [comments |-> Append(list, c), pending |-> timers]

\* 'comment_shown': add the payload unless the id is present
HandleShown(c, list) == IF Has(list, c.id) THEN list ELSE Append(list, c)

\* LoadCommentsFromAPI with the response.ok test negated
LoadCommentsFromAPI_NotOk(resp, list) == IF resp.status # "ok" THEN resp.comments ELSE list

\* loadCommentsFromAPI: the comment list after the response
LoadCommentsFromAPI(resp, list) == IF resp.status = "ok" THEN resp.comments ELSE list

\* ------------------------------------------------------------- Store and Hub
\* publish(instance, event): appended to the queue of every subscribed socket
Publish(queue, state, msg) == IF state = "subscribed" THEN Append(queue, msg) ELSE queue

\* the Hub's subscription state of the public socket for instance inst: the
\* socket is subscribed to the instance it joined last
Channel(inst) == IF instanceId = inst THEN join ELSE "none"

\* the same for the moderator socket, which stays on the Home instance
AdminChannel(inst) == IF inst = Home THEN aJoin ELSE "none"

\* a fetch response in flight that lists id was computed before id's removal
MarkStale(resps, id) ==
  {IF Has(r.comments, id) THEN [r EXCEPT !.stale = @ \cup {id}] ELSE r : r \in resps}

\* the ids created so far are 1..NextId-1
NextId == Cardinality({i \in Ids : store[i] # "none"}) + 1

\* an HTTP request served by the Store: nothing of an agent changes but what
\* the Store publishes
Request ==
  /\ active
  /\ ops < MaxOps
  /\ ops' = ops + 1
  /\ UNCHANGED <<now, gateVars, active, hostVars,
                 dups, settings, pending, fallback, join,
                 pageSettings, visibleComments, lagTimers, loadReq, obs,
                 aJoin, aDups, aSettings, aFallback, aFetches, aobs>>

Mutation == Request /\ UNCHANGED <<comments, allComments>>

\* POST /comments/ for instance inst: the comment is created visible and
\* pushed as new_comment to the instance's subscribers
CreateIn(inst) ==
  /\ NextId <= MaxId
  /\ LET id == NextId
         c == [id |-> id, hidden |-> FALSE, instance_id |-> inst]
     IN /\ store' = [store EXCEPT ![id] = "visible"]
        /\ created' = [created EXCEPT ![id] = now]
        /\ owner' = [owner EXCEPT ![id] = inst]
        /\ inbox' = Publish(inbox, Channel(inst), Msg("new_comment", id, <<c>>, 0))
        /\ aInbox' = Publish(aInbox, AdminChannel(inst), Msg("new_comment", id, <<c>>, 0))
  /\ UNCHANGED <<storeLag, fetches>>

StoreCreateIn(inst) == Mutation /\ CreateIn(inst)

\* a viewer of the Home instance submits a comment
StoreCreate == StoreCreateIn(Home)

\* a viewer of another instance submits a comment
StoreCreateElsewhere == \E inst \in Instances \ {Home} : StoreCreateIn(inst)

\* PUT /comments/{instance}/{id}/hide
Hide(id) ==
  /\ store[id] = "visible"
  /\ store' = [store EXCEPT ![id] = "hidden"]
  /\ inbox' = Publish(inbox, Channel(owner[id]), Msg("comment_hidden", id, <<>>, 0))
  /\ aInbox' = Publish(aInbox, AdminChannel(owner[id]), Msg("comment_hidden", id, <<>>, 0))
  /\ fetches' = MarkStale(fetches, id)
  /\ UNCHANGED <<created, storeLag, owner>>

StoreHide == Mutation /\ \E id \in Ids : Hide(id)

\* PUT /comments/{instance}/{id}/show: the event carries the full comment
Show(id) ==
  /\ store[id] = "hidden"
  /\ store' = [store EXCEPT ![id] = "visible"]
  /\ LET c == [CommentOf(id) EXCEPT !.hidden = FALSE]
     IN /\ inbox' = Publish(inbox, Channel(owner[id]), Msg("comment_shown", id, <<c>>, 0))
        /\ aInbox' = Publish(aInbox, AdminChannel(owner[id]),
                             Msg("comment_shown", id, <<c>>, 0))
  /\ UNCHANGED <<created, storeLag, owner, fetches>>

StoreShow == Mutation /\ \E id \in Ids : Show(id)

\* DELETE /comments/{instance}/{id}/
StoreDelete ==
  /\ Mutation
  /\ \E id \in Ids :
       /\ store[id] \in {"visible", "hidden"}
       /\ store' = [store EXCEPT ![id] = "deleted"]
       /\ inbox' = Publish(inbox, Channel(owner[id]), Msg("comment_deleted", id, <<>>, 0))
       /\ aInbox' = Publish(aInbox, AdminChannel(owner[id]), Msg("comment_deleted", id, <<>>, 0))
       /\ fetches' = MarkStale(fetches, id)
  /\ UNCHANGED <<created, storeLag, owner>>

\* PUT /settings/{instance}/: pushed as settings_updated
StoreUpdateSettings ==
  /\ Mutation
  /\ \E lag \in Lags :
       /\ storeLag' = lag
       /\ inbox' = Publish(inbox, Channel(Home), Msg("settings_updated", 0, <<>>, lag))
       /\ aInbox' = Publish(aInbox, AdminChannel(Home), Msg("settings_updated", 0, <<>>, lag))
  /\ UNCHANGED <<store, created, owner, fetches>>

\* DELETE /instances/{instance}/ of the Home instance: pushed as
\* instance_deleted; no mutation of the instance succeeds afterwards
StoreDeleteInstance ==
  /\ active
  /\ active' = FALSE
  /\ inbox' = Publish(inbox, Channel(Home), Msg("instance_deleted", 0, <<>>, 0))
  /\ aInbox' = Publish(aInbox, AdminChannel(Home), Msg("instance_deleted", 0, <<>>, 0))
  /\ UNCHANGED <<now, store, created, storeLag, gateVars, ops, owner, fetches,
                 hostVars, dups, comments, settings, pending, fallback, join,
                 pageSettings, visibleComments, lagTimers, loadReq, obs,
                 aJoin, aDups, allComments, aSettings, aFallback, aFetches, aobs>>

\* the instance exists: the Home instance until it is deleted, any other always
Exists(inst) == inst # Home \/ active

\* GET /settings/{instance}/: the Home instance's settings, the defaults for
\* the other instances
SettingsOf(inst) == IF inst = Home THEN <<storeLag>> ELSE <<0>>

\* the fallback timer t is armed and due
Due(t) == t # Null /\ t[1] <= now

\* every armed timer is due later than now
NoTimerDue ==
  /\ \A i \in 1..Len(pending) : pending[i].due > now
  /\ \A t \in lagTimers : t.due > now
  /\ ~Due(fallback)
  /\ ~Due(aFallback)

\* a second passes
Tick ==
  /\ now < MaxTime
  /\ NoTimerDue
  /\ now' = now + 1
  /\ UNCHANGED <<store, created, storeLag, gateVars, ops, active, owner, pubVars, admVars>>

\* ------------------------------------------------------------- public agent
\* subscribe(instance, public): the Hub pushes the public snapshot of the
\* instance named in join_instance; an unknown instance is not answered
HubJoin ==
  /\ join = "pending"
  /\ connected
  /\ Exists(instanceId)
  /\ join' = "subscribed"
  /\ inbox' = Append(inbox, Msg("initial_comments", 0, PublicListOf(instanceId), 0))
  /\ UNCHANGED <<storeVars, admVars, hostVars, dups, comments, settings, pending, fallback, fetches,
                 pageSettings, visibleComments, lagTimers, loadReq, obs>>

\* the head of the queue is delivered; a redelivery leaves it in the queue
Delivery(type, dup) ==
  /\ inbox # <<>>
  /\ Head(inbox).type = type
  /\ dup => dups < MaxDup
  /\ dups' = IF dup THEN dups + 1 ELSE dups

Rest(dup) == IF dup THEN inbox ELSE Tail(inbox)

\* loadCommentsHistory depends on comments.length: when it changes, the page's
\* mount effect runs again and calls loadSettings()
Reload(list) == loadReq' = (variant # "viewer" /\ (loadReq \/ Len(list) # Len(comments)))

\* the agent has not met this comment: not listed, not visible, not scheduled
Fresh(id) ==
  /\ ~Has(comments, id)
  /\ ~Has(visibleComments, id)
  /\ \A i \in 1..Len(pending) : pending[i].id # id

\* observation: the age at which each listed comment first reached the
\* display under the lag in force
Arrived(deliv, ids, keep) ==
  [id \in Ids |->
     IF id \in ids
     THEN (IF deliv[id] = Null /\ CurrentLag > 0 /\ Fresh(id)
           THEN <<now - created[id]>> ELSE deliv[id])
     ELSE (IF keep THEN deliv[id] ELSE Null)]

NoDeliv == [id \in Ids |-> Null]

\* 'new_comment'
OnNewComment ==
  /\ \E dup \in BOOLEAN :
       /\ Delivery("new_comment", dup)
       /\ inbox' = Rest(dup)
  /\ LET c == Head(inbox).comments[1]
         r == HandleNewComment(c, comments, pending, settings)
     IN /\ comments' = r.comments
        /\ pending' = r.pending
        /\ Render(r.comments, settings, pageSettings, LagSeconds(settings) = 0)
        /\ Reload(r.comments)
        /\ obs' = [obs EXCEPT !.pushed = TRUE,
                              !.removed[c.id] = "no",
                              !.deliv = Arrived(@, {c.id}, TRUE)]
  /\ UNCHANGED <<storeVars, admVars, hostVars, join, settings, fallback, fetches, pageSettings>>

\* HandleInitialComments without clearTimeout(fallbackTimeoutRef.current)
HandleInitialComments_KeepTimer(list, timer) == [comments |-> list, fallback |-> timer]

\* the socket effect: io(SOCKET_URL) opens a socket, the cleanup closes the
\* one it opened; n counts the sockets opened and not closed
OpenSocket(n) == n + 1

CloseSocket_Leak(n) == n

CloseSocket(n) == n - 1

\* the join effect: its cleanup clears the timer whose handle is in
\* fallbackTimeoutRef (the one armed last), its body arms a timer of 2 s;
\* timers is the sequence of the armed fallback timers
ClearFallback_Keep(timers) == timers

ClearFallback(timers) ==
  IF timers = <<>> THEN <<>> ELSE SubSeq(timers, 1, Len(timers) - 1)

ArmFallback(timers) == Append(timers, now + FallbackDelay)

\* 'initial_comments': the list and the fallback timer after it; the timer
\* held in fallbackTimeoutRef is cleared and the ref is set to null
HandleInitialComments(list, timer) == [comments |-> list, fallback |-> Null]

\* 'initial_comments'
OnInitialComments ==
  /\ \E dup \in BOOLEAN :
       /\ Delivery("initial_comments", dup)
       /\ inbox' = Rest(dup)
  /\ LET list == HandleInitialComments(Head(inbox).comments, fallback).comments
     IN /\ comments' = list
        /\ fallback' = HandleInitialComments(Head(inbox).comments, fallback).fallback
        /\ Render(list, settings, pageSettings, TRUE)
        /\ Reload(list)
        /\ obs' = [obs EXCEPT !.pushed = TRUE,
                              !.removed = [id \in Ids |-> IF id \in IdsOf(list) THEN "no" ELSE @[id]],
                              !.deliv = Arrived(@, IdsOf(list), FALSE)]
  /\ UNCHANGED <<storeVars, admVars, hostVars, join, settings, pending, fetches, pageSettings>>

\* 'settings_updated'. When settings?.lag_seconds changes, handleNewComment is
\* a new callback: the socket effect is cleaned up (the timers with a handle in
\* pendingCommentsRef are cleared, the socket is closed) and run again, and the
\* join effect, keyed on the socket, clears the list, joins on the new socket
\* and arms the fallback timer
OnSettingsUpdated ==
  /\ \E dup \in BOOLEAN :
       /\ Delivery("settings_updated", dup)
       /\ LET s == <<Head(inbox).lag>>
          IN /\ settings' = s
             /\ IF s # settings
                THEN /\ pending' = ClearAllPending(pending)
                     /\ inbox' = <<>>
                     /\ join' = "pending"
                     /\ comments' = <<>>
                     /\ fallback' = ArmFallback(ClearFallback(fallback))
                     /\ Render(<<>>, s, pageSettings, TRUE)
                     /\ Reload(<<>>)
                     /\ obs' = [obs EXCEPT !.pushed = TRUE, !.deliv = NoDeliv,
                                           !.sockets = OpenSocket(CloseSocket(@))]
                ELSE /\ inbox' = Rest(dup)
                     /\ Render(comments, s, pageSettings, FALSE)
                     /\ obs' = [obs EXCEPT !.pushed = TRUE]
                     /\ UNCHANGED <<pending, join, comments, fallback, loadReq>>
  /\ UNCHANGED <<storeVars, admVars, hostVars, fetches, pageSettings>>

\* 'comment_deleted'
OnCommentDeleted ==
  /\ \E dup \in BOOLEAN :
       /\ Delivery("comment_deleted", dup)
       /\ inbox' = Rest(dup)
  /\ LET id == Head(inbox).id
         list == Without(comments, id)
     IN /\ comments' = list
        /\ pending' = ClearPending(pending, id)
        /\ Render(list, settings, pageSettings, TRUE)
        /\ Reload(list)
        /\ obs' = [obs EXCEPT !.pushed = TRUE,
                              !.removed[id] = IF @ = "no" THEN "removed" ELSE @,
                              !.deliv[id] = Null]
  /\ UNCHANGED <<storeVars, admVars, hostVars, join, settings, fallback, fetches, pageSettings>>

\* 'comment_hidden'
OnCommentHidden ==
  /\ \E dup \in BOOLEAN :
       /\ Delivery("comment_hidden", dup)
       /\ inbox' = Rest(dup)
  /\ LET id == Head(inbox).id
         list == Without(comments, id)
     IN /\ comments' = list
        /\ pending' = ClearPending(pending, id)
        /\ Render(list, settings, pageSettings, TRUE)
        /\ Reload(list)
        /\ obs' = [obs EXCEPT !.pushed = TRUE,
                              !.removed[id] =
                                 IF @ # "no" THEN @
                                 ELSE IF CurrentLag > 0 /\ Age(id) < CurrentLag
                                         /\ ~Has(visibleComments, id)
                                      THEN "hiddenEarly" ELSE "removed",
                              !.deliv[id] = Null]
  /\ UNCHANGED <<storeVars, admVars, hostVars, join, settings, fallback, fetches, pageSettings>>

\* 'comment_shown'
OnCommentShown ==
  /\ \E dup \in BOOLEAN :
       /\ Delivery("comment_shown", dup)
       /\ inbox' = Rest(dup)
  /\ LET c == Head(inbox).comments[1]
         list == HandleShown(c, comments)
     IN /\ comments' = list
        /\ Render(list, settings, pageSettings, ~Has(comments, c.id))
        /\ Reload(list)
        /\ obs' = [obs EXCEPT !.pushed = TRUE, !.removed[c.id] = "no"]
  /\ UNCHANGED <<storeVars, admVars, hostVars, join, settings, pending, fallback, fetches, pageSettings>>

\* a timer armed by handleNewComment fires; a state update of an unmounted
\* component is dropped
PendingFire ==
  /\ \E i \in 1..Len(pending) :
       /\ pending[i].due <= now
       /\ LET t == pending[i]
              list == Append(comments, t.c)
          IN /\ pending' = Untrack(RemoveAt(pending, i), t.id)
             /\ IF mounted
                THEN /\ comments' = list
                     /\ Render(list, settings, pageSettings, TRUE)
                     /\ Reload(list)
                ELSE UNCHANGED <<comments, visibleComments, lagTimers, loadReq>>
  /\ UNCHANGED <<storeVars, admVars, hostVars, join, inbox, dups, settings, fallback, fetches,
                 pageSettings, obs>>

\* lagTimers.delete(id) in the callback of a timer of the variant: the other
\* timers armed for id are left without a handle
UntrackLag(timers, id) ==
  {IF t.id = id THEN [t EXCEPT !.tracked = FALSE] ELSE t : t \in timers}

\* a timer armed by the page's lag effect fires: the comment is appended to
\* visibleComments; the page's effect, keyed on visibleComments, runs again,
\* the variant's effect does not
LagTimerFire ==
  /\ \E t \in lagTimers :
       /\ t.due <= now
       /\ IF ~mounted
          THEN /\ lagTimers' = lagTimers \ {t}
               /\ UNCHANGED visibleComments
          ELSE IF variant = "recompute"
          THEN /\ visibleComments' = Append(visibleComments, t.c)
               /\ lagTimers' = UntrackLag(lagTimers \ {t}, t.id)
          ELSE LET r == PageEffect(comments, CurrentSettings(settings, pageSettings),
                                   Append(visibleComments, t.c))
               IN /\ visibleComments' = r.visible
                  /\ lagTimers' = r.timers
  /\ UNCHANGED <<storeVars, admVars, hostVars, join, inbox, dups, comments, settings, pending,
                 fallback, fetches, pageSettings, loadReq, obs>>

\* the fallback timer fires: GET /comments/{instance}/ is sent and answered;
\* an unknown instance is answered with an error
FallbackFire ==
  /\ Due(fallback)
  /\ fallback' = Null
  /\ \E reachable \in BOOLEAN :
       fetches' = fetches \cup
         {IF reachable /\ Exists(instanceId)
          THEN [status |-> "ok", comments |-> PublicListOf(instanceId), stale |-> {}]
          ELSE [status |-> "error", comments |-> <<>>, stale |-> {}]}
  /\ UNCHANGED <<storeVars, admVars, hostVars, join, inbox, dups, comments, settings, pending,
                 pageSettings, visibleComments, lagTimers, loadReq, obs>>

\* the response of the fallback fetch arrives; a state update of an
\* unmounted component is dropped
FetchApply ==
  /\ \E resp \in fetches :
       /\ fetches' = fetches \ {resp}
       /\ LET list == IF mounted THEN LoadCommentsFromAPI(resp, comments) ELSE comments
          IN /\ comments' = list
             /\ Reload(list)
             /\ IF mounted /\ resp.status = "ok"
                THEN /\ Render(list, settings, pageSettings, TRUE)
                     /\ obs' = [obs EXCEPT
                          !.fetched = <<resp.comments>>,
                          !.removed = [id \in Ids |->
                             IF id \in IdsOf(resp.comments) \ resp.stale THEN "no" ELSE @[id]],
                          !.deliv = Arrived(@, IdsOf(list), FALSE)]
                ELSE UNCHANGED <<visibleComments, lagTimers, obs>>
  /\ UNCHANGED <<storeVars, admVars, hostVars, join, inbox, dups, settings, pending, fallback,
                 pageSettings>>

\* loadSettings(): GET /settings/{instance}/ answered; the request for an
\* unknown instance fails and a state update of an unmounted component is
\* dropped
LoadSettings ==
  /\ loadReq
  /\ loadReq' = FALSE
  /\ LET s == IF mounted /\ Exists(instanceId) THEN SettingsOf(instanceId) ELSE pageSettings
     IN /\ pageSettings' = s
        /\ IF mounted
           THEN Render(comments, settings, s, FALSE)
           ELSE UNCHANGED <<visibleComments, lagTimers>>
        /\ obs' = [obs EXCEPT !.deliv =
                     IF LagSeconds(CurrentSettings(settings, s)) # CurrentLag
                     THEN NoDeliv ELSE @]
  /\ UNCHANGED <<storeVars, admVars, hostVars, join, inbox, dups, comments, settings, pending,
                 fallback, fetches>>

\* HandleInstanceDeleted with the settings kept
HandleInstanceDeleted_KeepSettings(list, s) == [comments |-> <<>>, settings |-> s]

\* 'instance_deleted' of useSocket: the list and the settings after it
HandleInstanceDeleted(list, s) == [comments |-> <<>>, settings |-> Null]

\* observation: what an instance_deleted found to clear
Closing(list, s) == IF list # <<>> /\ s # Null THEN "cleared" ELSE "empty"

\* 'instance_deleted': setComments([]); setSettings(null). When
\* settings?.lag_seconds was a number it becomes undefined: handleNewComment is
\* a new callback, the socket effect and the join effect run again as for
\* 'settings_updated'
OnInstanceDeleted ==
  /\ \E dup \in BOOLEAN :
       /\ Delivery("instance_deleted", dup)
       /\ IF settings # Null
          THEN /\ pending' = ClearAllPending(pending)
               /\ inbox' = <<>>
               /\ join' = "pending"
               /\ fallback' = ArmFallback(ClearFallback(fallback))
          ELSE /\ inbox' = Rest(dup)
               /\ UNCHANGED <<pending, join, fallback>>
  /\ LET r == HandleInstanceDeleted(comments, settings)
     IN /\ comments' = r.comments
        /\ settings' = r.settings
        /\ Render(r.comments, r.settings, pageSettings, TRUE)
        /\ Reload(r.comments)
  /\ obs' = [obs EXCEPT !.pushed = TRUE, !.closed = Closing(comments, settings),
                        !.deliv = NoDeliv,
                        !.sockets = IF settings # Null THEN OpenSocket(CloseSocket(@)) ELSE @]
  /\ UNCHANGED <<storeVars, admVars, hostVars, fetches, pageSettings>>

\* router.query.id changes: the join effect, keyed on [socket, instanceId], is
\* cleaned up (the fallback timer is cleared) and runs again: setComments([]),
\* join_instance for the new instance on the same socket, a new fallback
\* timer. The page's mount effect runs again and calls loadSettings(). The
\* socket effect does not run: pendingCommentsRef is left as it is, and the
\* events and the fetch response in flight still arrive
SwitchInstance ==
  /\ mounted
  /\ switches < MaxSwitch
  /\ switches' = switches + 1
  /\ \E inst \in Instances \ {instanceId} : instanceId' = inst
  /\ comments' = <<>>
  /\ join' = "pending"
  /\ fallback' = ArmFallback(ClearFallback(fallback))
  /\ Render(<<>>, settings, pageSettings, TRUE)
  /\ loadReq' = TRUE
  /\ obs' = [obs EXCEPT !.deliv = NoDeliv]
  /\ UNCHANGED <<storeVars, admVars, variant, mounted, connected, maxComments, inbox, dups,
                 settings, pending, fetches, pageSettings>>

\* the component unmounts: the cleanups of the page's lag effect
\* (lagTimers.forEach(clearTimeout)), of the socket effect (the timers with a
\* handle in pendingCommentsRef are cleared, newSocket.close()) and of the join
\* effect (the fallback timer is cleared) run
Unmount ==
  /\ mounted
  /\ mounted' = FALSE
  /\ lagTimers' = Orphans(lagTimers)
  /\ pending' = ClearAllPending(pending)
  /\ join' = "none"
  /\ inbox' = <<>>
  /\ fallback' = ClearFallback(fallback)
  /\ obs' = [obs EXCEPT !.sockets = CloseSocket(@)]
  /\ UNCHANGED <<storeVars, admVars, variant, instanceId, connected, switches, maxComments, dups, comments,
                 settings, fetches, pageSettings, visibleComments, loadReq>>

\* the transport drops: 'disconnect' sets connected to false; the Hub's
\* subscription lasts as long as the connection, the events in flight are lost
Disconnect ==
  /\ mounted
  /\ connected
  /\ connected' = FALSE
  /\ join' = "none"
  /\ inbox' = <<>>
  /\ UNCHANGED <<storeVars, admVars, variant, instanceId, mounted, switches, maxComments, dups, comments,
                 settings, pending, fallback, fetches, pageSettings, visibleComments,
                 lagTimers, loadReq, obs>>

\* the socket reconnects: 'connect' sets connected to true; the socket object
\* is the same, so the join effect, keyed on [socket, instanceId], does not run
Reconnect ==
  /\ mounted
  /\ ~connected
  /\ connected' = TRUE
  /\ UNCHANGED <<storeVars, admVars, variant, instanceId, mounted, switches, maxComments, join, inbox,
                 dups, comments, settings, pending, fallback, fetches, pageSettings,
                 visibleComments, lagTimers, loadReq, obs>>

\* ------------------------------------------------------------- moderator agent
\* AdminPage calls useAdminSocket(instanceId): authHeader is undefined
AuthHeader == Null

\* GET /admin/comments/{instance}/: an instance with a moderator credential
\* answers only a verified role
AdminEndpoint(header) ==
  IF ~active THEN [status |-> "error", comments |-> <<>>]
  ELSE IF hasPassword /\ header = Null
  THEN [status |-> "unauthorized", comments |-> <<>>]
  ELSE [status |-> "ok", comments |-> AdminList]

\* SetHidden that removes the entries instead of marking them
SetHidden_Remove(list, id, flag) == SelectSeq(list, LAMBDA c : c.id # id)

\* 'comment_hidden' / 'comment_shown': prev.map(... {...comment, hidden: flag})
SetHidden(list, id, flag) ==
  [i \in 1..Len(list) |->
     IF list[i].id = id THEN [list[i] EXCEPT !.hidden = flag] ELSE list[i]]

\* loadCommentsFromAPI of useAdminSocket: the list after the response
LoadAdminCommentsFromAPI(resp, list) == IF resp.status = "ok" THEN resp.comments ELSE list

\* subscribe(instance, moderator): the Hub pushes the moderator snapshot
AdminHubJoin ==
  /\ aJoin = "pending"
  /\ active
  /\ aJoin' = "subscribed"
  /\ aInbox' = Append(aInbox, Msg("initial_admin_comments", 0, AdminList, 0))
  /\ UNCHANGED <<storeVars, pubVars, aDups, allComments, aSettings, aFallback, aFetches, aobs>>

AdminDelivery(type, dup) ==
  /\ aInbox # <<>>
  /\ Head(aInbox).type = type
  /\ dup => aDups < MaxDup
  /\ aDups' = IF dup THEN aDups + 1 ELSE aDups
  /\ aInbox' = IF dup THEN aInbox ELSE Tail(aInbox)
  /\ aobs' = [aobs EXCEPT !.pushed = TRUE,
                          !.marked = IF type = "comment_hidden" /\ Has(allComments, Head(aInbox).id)
                                     THEN Head(aInbox).id ELSE @]

\* 'new_comment'
AdminOnNewComment ==
  /\ \E dup \in BOOLEAN : AdminDelivery("new_comment", dup)
  /\ allComments' = Append(allComments, Head(aInbox).comments[1])
  /\ UNCHANGED <<storeVars, pubVars, aJoin, aSettings, aFallback, aFetches>>

\* 'initial_admin_comments'
AdminOnInitialComments ==
  /\ \E dup \in BOOLEAN : AdminDelivery("initial_admin_comments", dup)
  /\ allComments' = Head(aInbox).comments
  /\ aFallback' = Null
  /\ UNCHANGED <<storeVars, pubVars, aJoin, aSettings, aFetches>>

\* 'settings_updated'
AdminOnSettingsUpdated ==
  /\ \E dup \in BOOLEAN : AdminDelivery("settings_updated", dup)
  /\ aSettings' = <<Head(aInbox).lag>>
  /\ UNCHANGED <<storeVars, pubVars, aJoin, allComments, aFallback, aFetches>>

\* 'comment_hidden'
AdminOnCommentHidden ==
  /\ \E dup \in BOOLEAN : AdminDelivery("comment_hidden", dup)
  /\ allComments' = SetHidden(allComments, Head(aInbox).id, TRUE)
  /\ UNCHANGED <<storeVars, pubVars, aJoin, aSettings, aFallback, aFetches>>

\* 'comment_shown'
AdminOnCommentShown ==
  /\ \E dup \in BOOLEAN : AdminDelivery("comment_shown", dup)
  /\ allComments' = SetHidden(allComments, Head(aInbox).id, FALSE)
  /\ UNCHANGED <<storeVars, pubVars, aJoin, aSettings, aFallback, aFetches>>

\* 'comment_deleted'
AdminOnCommentDeleted ==
  /\ \E dup \in BOOLEAN : AdminDelivery("comment_deleted", dup)
  /\ allComments' = Without(allComments, Head(aInbox).id)
  /\ UNCHANGED <<storeVars, pubVars, aJoin, aSettings, aFallback, aFetches>>

\* 'instance_deleted' of useAdminSocket: the list and the settings after it
AdminHandleInstanceDeleted(list, s) == [comments |-> <<>>, settings |-> Null]

\* 'instance_deleted': setAllComments([]); setSettings(null); the socket
\* effect of useAdminSocket has no dependencies and does not run again
AdminOnInstanceDeleted ==
  /\ aInbox # <<>>
  /\ Head(aInbox).type = "instance_deleted"
  /\ \E dup \in BOOLEAN :
       /\ dup => aDups < MaxDup
       /\ aDups' = IF dup THEN aDups + 1 ELSE aDups
       /\ aInbox' = IF dup THEN aInbox ELSE Tail(aInbox)
  /\ allComments' = AdminHandleInstanceDeleted(allComments, aSettings).comments
  /\ aSettings' = AdminHandleInstanceDeleted(allComments, aSettings).settings
  /\ aobs' = [aobs EXCEPT !.pushed = TRUE, !.closed = Closing(allComments, aSettings)]
  /\ UNCHANGED <<storeVars, pubVars, aJoin, aFallback, aFetches>>

\* the fallback timer fires: GET /admin/comments/{instance}/ is sent with the
\* hook's authHeader and answered; truth is the Store's full list at that time
AdminFallbackFire ==
  /\ Due(aFallback)
  /\ aFallback' = Null
  /\ \E reachable \in BOOLEAN :
       aFetches' = aFetches \cup
         {IF reachable
          THEN [status |-> AdminEndpoint(AuthHeader).status,
                comments |-> AdminEndpoint(AuthHeader).comments,
                truth |-> AdminList]
          ELSE [status |-> "error", comments |-> <<>>, truth |-> AdminList]}
  /\ UNCHANGED <<storeVars, pubVars, aJoin, aInbox, aDups, allComments, aSettings, aobs>>

\* the response of the moderator's fallback fetch arrives
AdminFetchApply ==
  /\ \E resp \in aFetches :
       /\ aFetches' = aFetches \ {resp}
       /\ allComments' = LoadAdminCommentsFromAPI(resp, allComments)
       /\ aobs' = [aobs EXCEPT !.fetched = <<resp>>]
  /\ UNCHANGED <<storeVars, pubVars, aJoin, aInbox, aDups, aSettings, aFallback>>

\* ------------------------------------------------------------- specifications
\* the Store of an instance at the time the agents mount
\* the instance's credential, when it has one, and no admin page request yet
NoRequest ==
  /\ adminPassword = IF hasPassword THEN <<CHOOSE c \in Chars : c # Colon>> ELSE <<>>
  /\ authorization = Null
  /\ response = "none"

InitStore(lags, credential) ==
  /\ now = 0
  /\ store = [id \in Ids |-> "none"]
  /\ created = [id \in Ids |-> 0]
  /\ storeLag \in lags
  /\ hasPassword \in credential
  /\ NoRequest
  /\ ops = 0
  /\ active = TRUE
  /\ owner = [id \in Ids |-> 0]

\* useSocket(instanceId) after mount: the socket is created, join_instance is
\* emitted and the fallback timer is armed; the page has called loadSettings().
\* redelivered = the redeliveries already spent: MaxDup for a channel that
\* delivers each event once
MountedDisplay(redelivered) ==
  /\ join = "pending"
  /\ inbox = <<>>
  /\ dups = redelivered
  /\ comments = <<>>
  /\ settings = Null
  /\ pending = <<>>
  /\ fallback = <<FallbackDelay>>
  /\ fetches = {}
  /\ pageSettings = Null
  /\ visibleComments = <<>>
  /\ lagTimers = {}
  /\ loadReq = TRUE
  /\ obs = [removed |-> [id \in Ids |-> "no"], deliv |-> NoDeliv,
            pushed |-> FALSE, fetched |-> Null, closed |-> "no", sockets |-> 1]

\* the page of this variant, mounted on the Home instance and connected,
\* whose settings hold one of these max_comments
PageWith(v, windows) ==
  /\ variant = v
  /\ instanceId = Home
  /\ mounted = TRUE
  /\ connected = TRUE
  /\ switches = 0
  /\ maxComments \in windows

\* the page of this variant with the default max_comments
Page(v) == PageWith(v, {DefaultMaxComments})

\* no public agent
NoDisplay ==
  /\ variant = "append"
  /\ instanceId = Home
  /\ mounted = FALSE
  /\ connected = FALSE
  /\ switches = 0
  /\ maxComments = DefaultMaxComments
  /\ join = "none"
  /\ inbox = <<>>
  /\ dups = 0
  /\ comments = <<>>
  /\ settings = Null
  /\ pending = <<>>
  /\ fallback = Null
  /\ fetches = {}
  /\ pageSettings = Null
  /\ visibleComments = <<>>
  /\ lagTimers = {}
  /\ loadReq = FALSE
  /\ obs = [removed |-> [id \in Ids |-> "no"], deliv |-> NoDeliv,
            pushed |-> FALSE, fetched |-> Null, closed |-> "no", sockets |-> 0]

\* useAdminSocket(instanceId) after mount
MountedAdmin(redelivered) ==
  /\ aJoin = "pending"
  /\ aInbox = <<>>
  /\ aDups = redelivered
  /\ allComments = <<>>
  /\ aSettings = Null
  /\ aFallback = <<FallbackDelay>>
  /\ aFetches = {}
  /\ aobs = [pushed |-> FALSE, fetched |-> Null, closed |-> "no", marked |-> 0]

\* no moderator agent
NoAdmin ==
  /\ aJoin = "none"
  /\ aInbox = <<>>
  /\ aDups = 0
  /\ allComments = <<>>
  /\ aSettings = Null
  /\ aFallback = Null
  /\ aFetches = {}
  /\ aobs = [pushed |-> FALSE, fetched |-> Null, closed |-> "no", marked |-> 0]

StoreNext ==
  \/ StoreCreate
  \/ StoreHide
  \/ StoreShow
  \/ StoreDelete
  \/ StoreUpdateSettings
  \/ Tick

DisplayNext ==
  \/ HubJoin
  \/ OnNewComment
  \/ OnInitialComments
  \/ OnSettingsUpdated
  \/ OnCommentDeleted
  \/ OnCommentHidden
  \/ OnCommentShown
  \/ PendingFire
  \/ LagTimerFire
  \/ FallbackFire
  \/ FetchApply
  \/ LoadSettings

AdminNext ==
  \/ AdminHubJoin
  \/ AdminOnNewComment
  \/ AdminOnInitialComments
  \/ AdminOnSettingsUpdated
  \/ AdminOnCommentHidden
  \/ AdminOnCommentShown
  \/ AdminOnCommentDeleted
  \/ AdminFallbackFire
  \/ AdminFetchApply

\* a display agent on an instance
Init == InitStore(Lags, {FALSE}) /\ MountedDisplay(0) /\ Page("append") /\ NoAdmin
Next == StoreNext \/ DisplayNext
Spec == Init /\ [][Next]_vars

\* a display agent on an instance whose Hub pushes nothing
NextSilent ==
  \/ StoreCreate
  \/ StoreHide
  \/ StoreShow
  \/ StoreDelete
  \/ StoreUpdateSettings
  \/ Tick
  \/ FallbackFire
  \/ FetchApply
  \/ LoadSettings
SpecSilent == Init /\ [][NextSilent]_vars

\* a moderator agent on an instance, with or without a moderator credential
InitAdmin == InitStore({0}, BOOLEAN) /\ NoDisplay /\ MountedAdmin(0)
NextAdmin == StoreNext \/ AdminNext
SpecAdmin == InitAdmin /\ [][NextAdmin]_vars

\* a public agent and a moderator agent on the same instance, no lag
\* configured, each event delivered once
InitRoles ==
  InitStore({0}, {FALSE}) /\ MountedDisplay(MaxDup) /\ Page("append") /\ MountedAdmin(MaxDup)
NextRoles ==
  \/ StoreCreate
  \/ StoreHide
  \/ StoreShow
  \/ StoreDelete
  \/ Tick
  \/ HubJoin
  \/ OnNewComment
  \/ OnInitialComments
  \/ OnCommentDeleted
  \/ OnCommentHidden
  \/ OnCommentShown
  \/ FallbackFire
  \/ FetchApply
  \/ AdminHubJoin
  \/ AdminOnNewComment
  \/ AdminOnInitialComments
  \/ AdminOnCommentHidden
  \/ AdminOnCommentShown
  \/ AdminOnCommentDeleted
  \/ AdminFallbackFire
  \/ AdminFetchApply
SpecRoles == InitRoles /\ [][NextRoles]_vars

\* an agent, public or moderator, on an instance that is deleted; each event
\* is delivered once
InitClose ==
  /\ InitStore({0}, {FALSE})
  /\ \/ MountedDisplay(MaxDup) /\ Page("append") /\ NoAdmin
     \/ NoDisplay /\ MountedAdmin(MaxDup)
NextClose ==
  \/ StoreNext
  \/ StoreDeleteInstance
  \/ DisplayNext
  \/ OnInstanceDeleted
  \/ AdminNext
  \/ AdminOnInstanceDeleted
SpecClose == InitClose /\ [][NextClose]_vars

\* a display agent whose instance changes; each event is delivered once
InitSwitch == InitStore({0}, {FALSE}) /\ MountedDisplay(MaxDup) /\ Page("append") /\ NoAdmin
NextSwitch ==
  \/ StoreNext
  \/ StoreCreateElsewhere
  \/ DisplayNext
  \/ SwitchInstance
SpecSwitch == InitSwitch /\ [][NextSwitch]_vars

\* a display agent under the flow-direction variant of the page
InitFlow == InitStore(Lags, {FALSE}) /\ MountedDisplay(0) /\ Page("recompute") /\ NoAdmin
SpecFlow == InitFlow /\ [][Next]_vars

\* a display agent that is unmounted
InitTeardown == InitStore({0}, {FALSE}) /\ MountedDisplay(0) /\ Page("append") /\ NoAdmin
NextTeardown ==
  \/ StoreNext
  \/ DisplayNext
  \/ Unmount
SpecTeardown == InitTeardown /\ [][NextTeardown]_vars

\* a display agent whose transport drops and reconnects; each event is
\* delivered once
InitReconnect == InitStore({0}, {FALSE}) /\ MountedDisplay(MaxDup) /\ Page("append") /\ NoAdmin
NextReconnect ==
  \/ StoreNext
  \/ DisplayNext
  \/ Disconnect
  \/ Reconnect
SpecReconnect == InitReconnect /\ [][NextReconnect]_vars

\* CommentPage after mount: useSocket(instanceId) as for the display page;
\* the page keeps no settings and no visible set of its own
MountedViewer(redelivered) ==
  /\ join = "pending"
  /\ inbox = <<>>
  /\ dups = redelivered
  /\ comments = <<>>
  /\ settings = Null
  /\ pending = <<>>
  /\ fallback = <<FallbackDelay>>
  /\ fetches = {}
  /\ pageSettings = Null
  /\ visibleComments = <<>>
  /\ lagTimers = {}
  /\ loadReq = FALSE
  /\ obs = [removed |-> [id \in Ids |-> "no"], deliv |-> NoDeliv,
            pushed |-> FALSE, fetched |-> Null, closed |-> "no", sockets |-> 1]

\* a viewer agent (the submission page) on an instance
InitViewer == InitStore(Lags, {FALSE}) /\ MountedViewer(0) /\ Page("viewer") /\ NoAdmin
NextViewer ==
  \/ StoreNext
  \/ HubJoin
  \/ OnNewComment
  \/ OnInitialComments
  \/ OnSettingsUpdated
  \/ OnCommentDeleted
  \/ OnCommentHidden
  \/ OnCommentShown
  \/ PendingFire
  \/ FallbackFire
  \/ FetchApply
SpecViewer == InitViewer /\ [][NextViewer]_vars

\* the program state of a display agent after settings_updated(lag 1), the
\* re-subscription and its snapshot, and new_comment(1) delivered twice
\* (reachable under Spec): two timers of handleNewComment are armed for
\* comment 1, the first without a handle in pendingCommentsRef
TwiceDelivered ==
  /\ now = 0
  /\ store = [id \in Ids |-> IF id = 1 THEN "visible" ELSE "none"]
  /\ created = [id \in Ids |-> 0]
  /\ owner = [id \in Ids |-> IF id = 1 THEN Home ELSE 0]
  /\ storeLag = 1
  /\ hasPassword = FALSE
  /\ NoRequest
  /\ active = TRUE
  /\ join = "subscribed"
  /\ inbox = <<>>
  /\ comments = <<>>
  /\ settings = <<1>>
  /\ pending = <<[id |-> 1, c |-> CommentOf(1), due |-> 1, tracked |-> FALSE],
                 [id |-> 1, c |-> CommentOf(1), due |-> 1, tracked |-> TRUE]>>
  /\ fallback = Null
  /\ fetches = {}
  /\ pageSettings = Null
  /\ visibleComments = <<>>
  /\ lagTimers = {}
  /\ loadReq = TRUE
  /\ obs = [removed |-> [id \in Ids |-> "no"], deliv |-> [NoDeliv EXCEPT ![1] = <<0>>],
            pushed |-> TRUE, fetched |-> Null, closed |-> "no", sockets |-> 1]

\* a display agent that goes on from TwiceDelivered, with MaxOps further
\* Store mutations and MaxDup further redeliveries
InitShown == TwiceDelivered /\ ops = 0 /\ dups = 0 /\ Page("append") /\ NoAdmin
SpecShown == InitShown /\ [][Next]_vars

\* a display agent whose settings hold any max_comments of 0..MaxWindow, on
\* an instance where comments are created; each event is delivered once
InitWindow ==
  InitStore({0}, {FALSE}) /\ MountedDisplay(MaxDup) /\ PageWith("append", 0..MaxWindow) /\ NoAdmin
NextWindow ==
  \/ StoreCreate
  \/ Tick
  \/ HubJoin
  \/ OnNewComment
  \/ OnInitialComments
  \/ FallbackFire
  \/ FetchApply
  \/ LoadSettings
SpecWindow == InitWindow /\ [][NextWindow]_vars

\* the moderator page's list after handleHideComment: the handler awaits
\* commentApi.hideComment and calls no setter
AfterHideComment_Optimistic(list, id) == SetHidden(list, id, TRUE)

AfterHideComment(list, id) == list

\* the same after handleShowComment
AfterShowComment(list, id) == list

\* the submission page's list after handleSubmit: only the form is reset
AfterSubmit(list) == list

\* the moderator presses the hide button of an entry rendered as not hidden
HandleHideComment ==
  /\ Request
  /\ \E id \in Ids :
       /\ \E i \in 1..Len(allComments) : allComments[i].id = id /\ ~allComments[i].hidden
       /\ Hide(id)
       /\ allComments' = AfterHideComment(allComments, id)
  /\ UNCHANGED comments

\* the moderator presses the show button of an entry rendered as hidden
HandleShowComment ==
  /\ Request
  /\ \E id \in Ids :
       /\ \E i \in 1..Len(allComments) : allComments[i].id = id /\ allComments[i].hidden
       /\ Show(id)
       /\ allComments' = AfterShowComment(allComments, id)
  /\ UNCHANGED comments

\* the viewer submits the form of the submission page
HandleSubmit ==
  /\ mounted
  /\ variant = "viewer"
  /\ Request
  /\ CreateIn(instanceId)
  /\ comments' = AfterSubmit(comments)
  /\ UNCHANGED allComments

\* a submission page and a moderator page on the same instance; every
\* mutation of the Store is an action of one of the two pages
InitActs ==
  InitStore({0}, {FALSE}) /\ MountedViewer(MaxDup) /\ Page("viewer") /\ MountedAdmin(MaxDup)
NextActs ==
  \/ HandleSubmit
  \/ HandleHideComment
  \/ HandleShowComment
  \/ Tick
  \/ HubJoin
  \/ OnNewComment
  \/ OnInitialComments
  \/ OnCommentHidden
  \/ OnCommentShown
  \/ FallbackFire
  \/ FetchApply
  \/ AdminHubJoin
  \/ AdminOnNewComment
  \/ AdminOnInitialComments
  \/ AdminOnCommentHidden
  \/ AdminOnCommentShown
  \/ AdminFallbackFire
  \/ AdminFetchApply
SpecActs == InitActs /\ [][NextActs]_vars

\* ------------------------------------------------------------ admin page gate
\* the strings of at most n characters
Strings(n) == UNION {[1..k -> Chars] : k \in 0..n}

\* base64 digits are the numbers 0..63, Pad is "="
Pad == 64

\* the client's encoding of the credential (RFC 4648)
RECURSIVE Base64Encode(_)
Base64Encode(b) ==
  IF Len(b) = 0 THEN <<>>
  ELSE IF Len(b) = 1 THEN <<b[1] \div 4, (b[1] % 4) * 16, Pad, Pad>>
  ELSE IF Len(b) = 2
  THEN <<b[1] \div 4, (b[1] % 4) * 16 + (b[2] \div 16), (b[2] % 16) * 4, Pad>>
  ELSE <<b[1] \div 4, (b[1] % 4) * 16 + (b[2] \div 16),
         (b[2] % 16) * 4 + (b[3] \div 64), b[3] % 64>>
       \o Base64Encode(SubSeq(b, 4, Len(b)))

RECURSIVE DecodeDigits(_)
DecodeDigits(d) ==
  IF Len(d) < 2 THEN <<>>
  ELSE IF Len(d) = 2 THEN <<d[1] * 4 + (d[2] \div 16)>>
  ELSE IF Len(d) = 3
  THEN <<d[1] * 4 + (d[2] \div 16), (d[2] % 16) * 16 + (d[3] \div 4)>>
  ELSE <<d[1] * 4 + (d[2] \div 16), (d[2] % 16) * 16 + (d[3] \div 4),
         (d[3] % 4) * 64 + d[4]>>
       \o DecodeDigits(SubSeq(d, 5, Len(d)))

\* Buffer.from(encoded, "base64").toString("utf-8"): the padding carries no
\* bits; the codes below 128 are their own characters
Base64Decode(encoded) == DecodeDigits(SelectSeq(encoded, LAMBDA x : x # Pad))

\* decoded.includes(sep)
Includes(str, sep) == \E i \in 1..Len(str) : str[i] = sep

\* String.prototype.split(sep): the pieces between the separators
RECURSIVE Split(_, _)
Split(str, sep) ==
  IF Includes(str, sep)
  THEN LET i == CHOOSE j \in 1..Len(str) :
                  str[j] = sep /\ \A k \in 1..(j - 1) : str[k] # sep
       IN <<SubSeq(str, 1, i - 1)>> \o Split(SubSeq(str, i + 1, Len(str)), sep)
  ELSE <<str>>

\* String.prototype.split(sep, limit): the first limit pieces, the rest is dropped
SplitLimit(str, sep, limit) ==
  LET parts == Split(str, sep)
  IN SubSeq(parts, 1, IF Len(parts) < limit THEN Len(parts) ELSE limit)

\* the password the gate compares: parts[1] of decoded.split(":", 2), or the
\* whole string when it holds no colon
Password(decoded) ==
  IF Includes(decoded, Colon) THEN SplitLimit(decoded, Colon, 2)[2] ELSE decoded

\* getServerSideProps, for an instance that exists: the outcome for the
\* instance's admin_password and the request's Authorization header
\* (Null, or <<[scheme, credentials]>> for "scheme credentials")
CheckAuthorization(password, header) ==
  IF password = <<>> THEN "props"
  ELSE IF header = Null \/ header[1].scheme # "Basic" THEN "401"
  ELSE IF Password(Base64Decode(header[1].credentials)) # password THEN "401"
  ELSE "props"

\* the Authorization headers of the requests
Headers ==
  {Null} \cup {<<[scheme |-> sch, credentials |-> Base64Encode(c)]>> :
                 sch \in {"Basic", "Bearer"}, c \in Strings(MaxCred)}

\* a request for the admin page
GetServerSideProps ==
  /\ active
  /\ \E header \in Headers :
       /\ authorization' = header
       /\ response' = CheckAuthorization(adminPassword, header)
  /\ UNCHANGED <<now, store, created, storeLag, hasPassword, adminPassword, ops, active,
                 owner, pubVars, admVars>>

\* an instance with any admin_password, or none, and no agent
InitGate ==
  /\ now = 0
  /\ store = [id \in Ids |-> "none"]
  /\ created = [id \in Ids |-> 0]
  /\ owner = [id \in Ids |-> 0]
  /\ storeLag = 0
  /\ ops = 0
  /\ active = TRUE
  /\ adminPassword \in Strings(MaxPass)
  /\ hasPassword = (adminPassword # <<>>)
  /\ authorization = Null
  /\ response = "none"
  /\ NoDisplay
  /\ NoAdmin
NextGate == GetServerSideProps
SpecGate == InitGate /\ [][NextGate]_vars

\* the fallback fetch is answered by the Store
FallbackFetchOk == FallbackFire /\ \A r \in fetches' \ fetches : r.status = "ok"

\* the steps the agent, the Hub and the clock take by themselves
Progress ==
  \/ Tick
  \/ HubJoin
  \/ OnNewComment
  \/ OnInitialComments
  \/ OnSettingsUpdated
  \/ PendingFire
  \/ LagTimerFire
  \/ FallbackFetchOk
  \/ FetchApply
  \/ LoadSettings

\* a display agent that stays mounted while comments are created and never
\* removed, the lag changes and the transport drops and reconnects; each
\* event is delivered once, every timer that is due fires, every event and
\* response in flight is applied, every fetch succeeds and a dropped
\* transport reconnects
InitLive == InitStore(Lags, {FALSE}) /\ MountedDisplay(MaxDup) /\ Page("append") /\ NoAdmin
NextLive ==
  \/ StoreCreate
  \/ StoreUpdateSettings
  \/ Progress
  \/ Disconnect
  \/ Reconnect
SpecLive == InitLive /\ [][NextLive]_vars /\ WF_vars(Progress) /\ WF_vars(Reconnect)

\* ------------------------------------------------------------- claims
\* C1. Cancellation: with a lag in force, a comment whose comment_hidden was
\* applied before it was promoted is not in the visible set afterwards, as
\* long as no comment_shown (or later creation or snapshot) reinstates it.
C1_Cancellation ==
  \A id \in Ids : obs.removed[id] = "hiddenEarly" => ~Has(visibleComments, id)

\* C2. Delay exactness: with lag L > 0, a comment that reached the display at
\* an age below L is visible exactly from the instant its age reaches L: not
\* before, and not still invisible once its age is past L.
C2_DelayExactness ==
  \A id \in Ids :
    (CurrentLag > 0 /\ obs.deliv[id] # Null /\ obs.deliv[id][1] < CurrentLag) =>
      /\ Has(visibleComments, id) => Age(id) >= CurrentLag
      /\ Age(id) > CurrentLag => Has(visibleComments, id)

\* C3. Past-due promotion: with lag L > 0, a comment that reached the display
\* at an age of L or more is visible as soon as it has been delivered.
C3_PastDuePromotion ==
  \A id \in Ids :
    (CurrentLag > 0 /\ obs.deliv[id] # Null /\ obs.deliv[id][1] >= CurrentLag) =>
      Has(visibleComments, id)

\* C4. Removal after promotion: with a lag in force, a comment whose
\* comment_hidden or comment_deleted has been applied is not in the visible
\* set, also when it had been promoted before.
C4_RemovalAfterPromotion ==
  \A id \in Ids :
    (CurrentLag > 0 /\ obs.removed[id] # "no") => ~Has(visibleComments, id)

\* C5. Idempotent creation: the public agent's list holds each id at most once.
C5_IdempotentCreation ==
  \A id \in Ids : Count(comments, id) <= 1

\* C6. Deletions always win: a comment whose comment_hidden or comment_deleted
\* has been applied is not in the public list unless a later comment_shown,
\* comment_created or a snapshot or response computed after the removal
\* reinstates it.
C6_DeletionsWin ==
  \A id \in Ids : obs.removed[id] # "no" => ~Has(comments, id)

\* nothing is outstanding: the snapshot, every push event, every scheduled
\* creation and the fallback fetch have been applied
Quiescent ==
  /\ join = "subscribed"
  /\ inbox = <<>>
  /\ pending = <<>>
  /\ fallback = Null
  /\ fetches = {}

\* C7. Reconciliation: once nothing is outstanding, the public list holds
\* exactly the Store's visible and existing comments, each exactly once.
C7_Reconciliation ==
  Quiescent =>
    \A id \in Ids : Count(comments, id) = (IF store[id] = "visible" THEN 1 ELSE 0)

\* C8. Fallback convergence, public role: with no push event delivered, after
\* the fallback fetch has succeeded the list is the list the endpoint returned.
C8_FallbackConvergence ==
  (~obs.pushed /\ obs.fetched # Null) => comments = obs.fetched[1]

C8_Witness ==
  /\ ~obs.pushed
  /\ obs.fetched # Null
  /\ Len(obs.fetched[1]) = MaxId
  /\ comments = obs.fetched[1]

\* C9. Fallback convergence, moderator role: with no push event delivered,
\* after the fallback fetch was answered the moderator's list is the Store's
\* full list at fetch time, with or without a moderator credential.
C9_AdminFallbackConvergence ==
  (~aobs.pushed /\ aobs.fetched # Null /\ aobs.fetched[1].status # "error") =>
    allComments = aobs.fetched[1].truth

\* both agents have applied every event published so far
CaughtUp ==
  /\ join = "subscribed"
  /\ inbox = <<>>
  /\ aJoin = "subscribed"
  /\ aInbox = <<>>

\* C10. Role filtering: when both agents have applied the same events, a
\* comment hidden in the Store is in the moderator's list, marked hidden, and
\* not in the public list.
C10_RoleFiltering ==
  CaughtUp =>
    \A id \in Ids :
      store[id] = "hidden" =>
        /\ \E i \in 1..Len(allComments) : allComments[i].id = id /\ allComments[i].hidden
        /\ ~Has(comments, id)

\* C11. Instance deletion is terminal: once an agent has applied
\* instance_deleted, its comment list and its settings stay empty whatever
\* arrives or fires afterwards, and it does not subscribe again.
C11_DeletionTerminal ==
  /\ obs.closed # "no" => comments = <<>> /\ settings = Null /\ join # "pending"
  /\ aobs.closed # "no" => allComments = <<>> /\ aSettings = Null /\ aJoin # "pending"

\* C12. Instance deletion empties the agent: in the state right after
\* instance_deleted is applied, the comment list is empty and the settings are
\* null, for the public and for the moderator agent.
C12_DeletionEmpties ==
  [][/\ (obs.closed = "no" /\ obs'.closed # "no") => comments' = <<>> /\ settings' = Null
     /\ (aobs.closed = "no" /\ aobs'.closed # "no") => allComments' = <<>> /\ aSettings' = Null]_vars

C12_Witness ==
  /\ obs.closed = "cleared"
  /\ comments = <<>>
  /\ settings = Null

\* C13. No cross-instance leakage: after the subscribed instance has changed,
\* every comment in the agent's list and in the display's visible set belongs
\* to the instance now subscribed.
C13_NoLeakage ==
  switches > 0 =>
    /\ \A i \in 1..Len(comments) : comments[i].instance_id = instanceId
    /\ \A i \in 1..Len(visibleComments) : visibleComments[i].instance_id = instanceId

\* C14. Switch ordering: at the step that emits the subscribe for the new
\* instance, the previous instance's fallback timer and all its per-comment
\* delay timers are cancelled and the comment list is cleared.
C14_SwitchOrdering ==
  [][instanceId' # instanceId =>
       /\ comments' = <<>>
       /\ pending' = <<>>
       /\ lagTimers' = {}
       /\ fallback' = <<now + FallbackDelay>>]_vars

\* the agent holds the comment and has not promoted it: it is in the list or
\* waits for a timer of the hook or of the page
NotYetPromoted(id) ==
  /\ ~Has(visibleComments, id)
  /\ \/ Has(comments, id)
     \/ \E i \in 1..Len(pending) : pending[i].id = id
     \/ \E t \in lagTimers : t.id = id

\* C15. Lag change mid-flight: at the step that changes the lag, every
\* not-yet-promoted comment is measured against its creation timestamp and
\* the new lag: the ones that are past-due are visible right after the step.
C15_LagChange ==
  [][CurrentLag' # CurrentLag =>
       \A id \in Ids :
         (NotYetPromoted(id) /\ now - created[id] >= CurrentLag') =>
           Has(visibleComments', id)]_vars

\* C16. No retraction on lag increase (display page): a step that raises the
\* lag leaves every visible comment in the visible set, whatever its age.
C16_NoRetraction ==
  [][CurrentLag' > CurrentLag =>
       \A id \in Ids : Has(visibleComments, id) => Has(visibleComments', id)]_vars

C16_Witness ==
  /\ CurrentLag > 0
  /\ \E id \in Ids : Has(visibleComments, id) /\ Age(id) < CurrentLag

\* C18. Promotion is idempotent: the visible set holds each id at most once.
C18_PromotionIdempotent ==
  \A id \in Ids : Count(visibleComments, id) <= 1

\* C17. No retraction on lag increase (flow-direction variant): a step that
\* raises the lag above the age of a visible comment leaves the comment in the
\* visible set.
C17_NoRetractionFlow ==
  [][CurrentLag' > CurrentLag =>
       \A id \in Ids :
         (Has(visibleComments, id) /\ now - created[id] < CurrentLag') =>
           Has(visibleComments', id)]_vars

\* C19. Teardown releases everything: once the component is unmounted, no
\* per-comment delay timer and no fallback timer is armed and the socket is
\* closed; no step after the unmount changes the comment list or the visible
\* set.
C19_Teardown ==
  [][~mounted' =>
       /\ pending' = <<>>
       /\ lagTimers' = {}
       /\ fallback' = Null
       /\ join' = "none"
       /\ ~mounted => UNCHANGED <<comments, visibleComments>>]_vars

\* C20. Reconnect resynchronises: at the step at which the transport is up
\* again after a disconnect, the agent has issued the subscribe for its
\* instance again and armed the fallback timer.
C20_ReconnectResync ==
  [][(~connected /\ connected') => (join' = "pending" /\ fallback' # Null)]_vars

\* C21. Snapshot cancels the fallback: the step that applies the snapshot
\* (initial_comments on the public agent, initial_admin_comments on the
\* moderator agent) leaves no fallback timer armed and issues no fetch, and a
\* fallback timer is armed again only by a new subscription, so no fallback
\* fetch is issued for a subscription whose snapshot was applied before the
\* timer fired.
C21_SnapshotCancelsFallback ==
  [][/\ OnInitialComments => (fallback' = Null /\ fetches' = fetches)
     /\ AdminOnInitialComments => (aFallback' = Null /\ aFetches' = aFetches)
     /\ (fallback = Null /\ fallback' # Null) => join' = "pending"
     /\ aFallback = Null => aFallback' = Null]_vars

\* the snapshot was applied to a subscription of the public agent made at
\* time 0, the time of the fallback has passed and no fetch was ever issued
C21_Witness ==
  /\ mounted
  /\ settings = Null
  /\ obs.closed = "no"
  /\ join = "subscribed"
  /\ inbox = <<>>
  /\ comments # <<>>
  /\ now >= FallbackDelay
  /\ fallback = Null
  /\ fetches = {}
  /\ obs.fetched = Null

\* C22. Lag lower bound: in every step in which a comment enters the display's
\* visible set while the lag in force after the step is L > 0, the comment is
\* at least L seconds old (now - createdAt >= L), whatever brought it there:
\* snapshot, fallback fetch, new_comment, comment_shown or a lag change.
C22_LagLowerBound ==
  [][\A id \in Ids :
       (~Has(visibleComments, id) /\ Has(visibleComments', id) /\ CurrentLag' > 0)
         => now' - created'[id] >= CurrentLag']_vars

\* a comment that reached the display younger than the lag in force is in
\* the visible set, the lag still being in force
C22_Witness ==
  /\ CurrentLag > 0
  /\ \E id \in Ids :
       /\ obs.deliv[id] # Null
       /\ obs.deliv[id][1] < CurrentLag
       /\ Has(visibleComments, id)

\* the clock stops before a delay timer armed for the comment, or the
\* fallback timer, is due
Horizon(id) ==
  /\ now = MaxTime
  /\ \/ \E i \in 1..Len(pending) : pending[i].id = id /\ pending[i].due > now
     \/ \E t \in lagTimers : t.id = id /\ t.due > now
     \/ (fallback # Null /\ ~Due(fallback))

\* C23. Eventual promotion: a comment that is created in the Store and stays
\* visible and existing is eventually in the visible set of the display agent
\* mounted on its instance (unless the clock stops before its delay timer or
\* the fallback timer is due), under fair timer firing, delivery and successful fallback fetches,
\* for every sequence of lag changes, disconnects and reconnects; and it is
\* promoted once: the visible set never holds it twice.
C23_EventualPromotion ==
  /\ \A id \in Ids :
       <>(store[id] = "visible") => <>(Has(visibleComments, id) \/ Horizon(id))
  /\ [](\A id \in Ids : Count(visibleComments, id) <= 1)

\* the delay timers armed for a comment id: by handleNewComment and by the
\* page's lag effect
TimersOf(id) ==
  Cardinality({i \in 1..Len(pending) : pending[i].id = id})
    + Cardinality({t \in lagTimers : t.id = id})

\* C24. Single tracked timer per comment: in every reachable state at most one
\* delay timer is armed per comment id, and every armed delay timer is the
\* one recorded in the id-to-handle map (pendingCommentsRef, lagTimerRef), so
\* that a removal event or a teardown cancels every timer that could still add
\* the comment.
C24_SingleTrackedTimer ==
  /\ \A id \in Ids : TimersOf(id) <= 1
  /\ \A i \in 1..Len(pending) : pending[i].tracked
  /\ \A t \in lagTimers : t.tracked

\* C25. instance_deleted clears all display state: after the step that
\* applies instance_deleted on the display agent the visible set is empty, no
\* per-comment delay timer of the hook or of the page is armed, and the
\* settings used for rendering are empty, whatever the lag was.
C25_DeletionClearsDisplay ==
  [][OnInstanceDeleted =>
       /\ visibleComments' = <<>>
       /\ pending' = <<>>
       /\ lagTimers' = {}
       /\ CurrentSettings(settings', pageSettings') = Null]_vars

\* C26. Scheduler only for the display role: on a public agent that is not a
\* display agent (the submission page, which uses useSocket), the step that
\* delivers new_comment appends the comment to the agent's list, whatever lag
\* value the agent's settings hold.
C26_ViewerImmediate ==
  [][OnNewComment => comments' = Append(comments, Head(inbox).comments[1])]_vars

\* C27. comment_shown reinstates exactly once: after the step that applies
\* comment_shown(c) with its payload on the public agent the list holds
\* exactly one entry with id c (the payload appended when the id was absent,
\* the list untouched when it was present), no fetch is issued and no
\* fallback timer is armed, and applying the event again changes nothing; on
\* the moderator agent the step only clears the hidden marker of c.
C27_ShownOnce ==
  [][/\ OnCommentShown =>
          LET c == Head(inbox).comments[1]
          IN /\ Count(comments', c.id) = 1
             /\ comments' = (IF Has(comments, c.id) THEN comments ELSE Append(comments, c))
             /\ fetches' = fetches
             /\ fallback' = fallback
             /\ HandleShown(c, comments') = comments'
     /\ AdminOnCommentShown =>
          /\ Len(allComments') = Len(allComments)
          /\ \A i \in 1..Len(allComments) :
               /\ allComments'[i].id = allComments[i].id
               /\ allComments'[i].instance_id = allComments[i].instance_id
               /\ allComments'[i].hidden =
                    (allComments[i].hidden /\ allComments[i].id # Head(aInbox).id)
          /\ aFetches' = aFetches
          /\ aFallback' = aFallback]_vars

\* C28. Moderator hide is a mark, not a removal: the step that applies
\* comment_hidden(c) on the moderator agent sets the hidden flag of the
\* entries with id c and leaves the length of the list, the order, every
\* other field, every other entry and the settings unchanged; the step that
\* applies comment_deleted(c) removes exactly the entries with id c, keeps the
\* others as they are and in order, and leaves the settings unchanged.
C28_HideIsMark ==
  [][/\ AdminOnCommentHidden =>
          /\ Len(allComments') = Len(allComments)
          /\ \A i \in 1..Len(allComments) :
               /\ allComments'[i].id = allComments[i].id
               /\ allComments'[i].instance_id = allComments[i].instance_id
               /\ allComments'[i].hidden =
                    (allComments[i].hidden \/ allComments[i].id = Head(aInbox).id)
          /\ aSettings' = aSettings
     /\ AdminOnCommentDeleted =>
          /\ allComments' = SelectSeq(allComments, LAMBDA c : c.id # Head(aInbox).id)
          /\ aSettings' = aSettings]_vars

\* comment_hidden was applied to a moderator list of two comments that held
\* the comment: it is marked, the other entry is not
C28_Witness ==
  /\ Len(allComments) = 2
  /\ \E i, j \in 1..2 :
       /\ allComments[i].id = aobs.marked
       /\ allComments[i].hidden
       /\ allComments[j].id # aobs.marked
       /\ ~allComments[j].hidden

\* the place of the first entry with this id
Pos(list, id) == CHOOSE i \in 1..Len(list) : list[i].id = id /\ \A j \in 1..(i - 1) : list[j].id # id

\* C29. Visible order is promotion order: no step (new comment, lag change,
\* re-evaluation) reorders comments that are already visible, and a comment
\* promoted by a step is placed after the comments that were visible before
\* it, whatever the creation timestamps are.
C29_PromotionOrder ==
  [][\A a, b \in Ids :
       (a # b /\ Has(visibleComments, a) /\ Has(visibleComments', a) /\ Has(visibleComments', b))
         => /\ (Has(visibleComments, b) /\ Pos(visibleComments, a) < Pos(visibleComments, b))
                 => Pos(visibleComments', a) < Pos(visibleComments', b)
            /\ ~Has(visibleComments, b) => Pos(visibleComments', a) < Pos(visibleComments', b)]_vars

\* C30. Trailing display window: whenever the page renders the comments, the
\* rendered list is the last min(max_comments, n) entries of the n-entry
\* promoted list, in the same order, so it never holds more than max_comments
\* entries, for every non-negative integer max_comments.
C30_TrailingWindow ==
  (mounted /\ CurrentSettings(settings, pageSettings) # Null) =>
    LET n == Len(visibleComments)
        k == IF maxComments < n THEN maxComments ELSE n
    IN /\ DisplayComments = SubSeq(visibleComments, n - k + 1, n)
       /\ Len(DisplayComments) <= maxComments

\* the fallback fetch failed and the agent has received nothing: the timer
\* has fired, no response is in flight, no response was accepted and no push
\* event was applied
FailedFetch ==
  /\ mounted
  /\ fallback = Null
  /\ fetches = {}
  /\ obs.fetched = Null
  /\ ~obs.pushed

\* C31. Fallback failure is non-fatal and leaves state unchanged: the step
\* that applies a failed fallback response (thrown or non-OK) leaves the
\* comment list and the settings as they were, and a retry path remains: when
\* the transport reconnects after a failed fetch, the fetch is attempted
\* again (the fallback timer is armed or a fetch is issued).
C31_FallbackFailure ==
  [][/\ (FetchApply /\ \A r \in fetches \ fetches' : r.status # "ok")
          => (comments' = comments /\ settings' = settings)
     /\ (FailedFetch /\ Reconnect) => (fallback' # Null \/ fetches' # {})]_vars

C33_SettingsOnly ==
  [][OnSettingsUpdated =>
       /\ settings' = <<Head(inbox).lag>>
       /\ comments' = comments
       /\ pending' = pending
       /\ inbox' \in {inbox, Tail(inbox)}
       /\ join' = join
       /\ fallback' = fallback]_vars

PasswordPart(credential) ==
  IF Includes(credential, Colon)
  THEN LET i == CHOOSE j \in 1..Len(credential) :
                  credential[j] = Colon /\ \A k \in 1..(j - 1) : credential[k] # Colon
       IN SubSeq(credential, i + 1, Len(credential))
  ELSE credential

\* C35. Moderator credential check: for an instance with a non-empty
\* admin_password P the admin page's gate returns the page props if and only
\* if the request carries a Basic Authorization header whose decoded
\* credential has a password part (everything after the first colon, or the
\* whole string when there is no colon) equal to P; every other request gets
\* a 401; an instance without admin_password is served without any header.
C35_CredentialCheck ==
  response # "none" =>
    IF adminPassword # <<>>
    THEN /\ response \in {"props", "401"}
         /\ response = "props" <=>
              /\ authorization # Null
              /\ authorization[1].scheme = "Basic"
              /\ PasswordPart(Base64Decode(authorization[1].credentials)) = adminPassword
    ELSE response = "props"

\* C36. Hide/show round trip on the moderator list: for the moderator's list
\* and every comment c with an entry in it that is not hidden, applying
\* comment_hidden(c) and then comment_shown(c) yields the original list (same
\* entries, same order, same flags).
C36_HideShowRoundTrip ==
  \A id \in Ids :
    (\E i \in 1..Len(allComments) : allComments[i].id = id /\ ~allComments[i].hidden)
      => SetHidden(SetHidden(allComments, id, TRUE), id, FALSE) = allComments

====
